---- MODULE Spec2Model ----
(***************************************************************************)
(* Model of the odds normalization pipeline of scrapers/sportsbookreview.py *)
(*                                                                         *)
(* Two drivers are modelled:                                               *)
(*   - the table drivers (OddsScraper.driver, NHLOddsScraper.driver,       *)
(*     MLBOddsScraper.driver, NCAABasketballOddsScraper.driver) with the   *)
(*     per-sport _reformat_data and _to_schema;                            *)
(*   - NCAABasketball2ndHalf.driver with its _reformat_data.               *)
(*                                                                         *)
(* Representation.  A cell is a string token.  A missing cell (pandas NaN) *)
(* is the token "NaN"; DataFrame.fillna(0) turns it into the token "0".    *)
(* Decimal values are kept in half points (float("3.5") = 7), moneylines   *)
(* in units (int("-170") = -170).  Pass-through score columns are left     *)
(* out.  The fields src (row label in the fetched table, 0 for a row that  *)
(* no fetched row was aligned to) and rows (frame positions a record was   *)
(* built from) record provenance only.                                     *)
(*                                                                         *)
(* The helpers that are functions of their arguments alone (_make_season,  *)
(* _make_datestr, the blacklist filter, _parse_teams_and_scores,           *)
(* _parse_opener, _parse_sportsbook_odds, _translate) are applied by       *)
(* SpecFn: fn names the helper, arg its arguments, ret its result.  There  *)
(* a Python str is the sequence of its characters, or the sequence of its  *)
(* whitespace-separated tokens where the helper splits it.                 *)
(*                                                                         *)
(* SpecMain is cli.main, from the parsed arguments to its return or its    *)
(* sys.exit(1).                                                            *)
(***************************************************************************)
EXTENDS Integers, Sequences, FiniteSets, TLC

VARIABLES sport, seasons, tables, season_i, df, pc, out,
          dates, date_i, schema, all_data, final_df, pc2,
          fn, arg, ret,
          args, env, scraper, mpc, saved, error

vars == <<sport, seasons, tables, season_i, df, pc, out,
          dates, date_i, schema, all_data, final_df, pc2,
          fn, arg, ret,
          args, env, scraper, mpc, saved, error>>

tvars == <<sport, seasons, tables, season_i, df, pc, out>>
hvars == <<dates, date_i, schema, all_data, final_df, pc2>>
fvars == <<fn, arg, ret>>
mvars == <<args, env, scraper, mpc, saved, error>>

\* ---- bounds ------------------------------------------------------------
MaxRows == 4
MaxSeasons == 2
MaxDates == 3
MaxGames == 2
MaxYearSpan == 94
DaySamples == {1, 9, 15, 31}
MaxWords == 6
MaxParts == 4

\* ---- program constants -------------------------------------------------
MIN_YEAR == 2007
MAX_YEAR == 2023

blacklist == {"pk", "PK", "NL", "nl", "a100", "a105", "a110", ".5+03", ".5ev", "-"}

Sports == {"nfl", "nba", "nhl", "mlb", "ncaa"}

\* A fetched unit: ok = FALSE when pd.read_html finds no table (ValueError),
\* otherwise rows are the data rows dfs[0][1:], labelled 1..Len(rows).
NoTable == [ok |-> FALSE, rows |-> <<>>]

Table(rs) == [ok |-> TRUE, rows |-> rs]

\* ---- numeric conversions -----------------------------------------------
\* float(x): defined on decimal literals, raises ValueError otherwise
IsFloat(x) == x \in {"0", "1", "-1", "3", "-3", "3.5", "-3.5", "22", "44", "45",
                     "150", "-170", "-110", "70", "75", "75.5"}

float(x) ==
  CASE x = "0" -> 0      [] x = "1" -> 2       [] x = "-1" -> -2
    [] x = "3" -> 6      [] x = "-3" -> -6     [] x = "3.5" -> 7
    [] x = "-3.5" -> -7  [] x = "22" -> 44     [] x = "44" -> 88
    [] x = "45" -> 90    [] x = "150" -> 300   [] x = "-170" -> -340
    [] x = "-110" -> -220 [] x = "70" -> 140   [] x = "75" -> 150
    [] x = "75.5" -> 151

\* int(x): defined on integer literals only; int("3.5") raises ValueError
IsInt(x) == x \in {"0", "1", "-1", "3", "-3", "22", "44", "45", "150", "-170", "-110",
                   "70", "75"}

int(x) ==
  CASE x = "0" -> 0      [] x = "1" -> 1       [] x = "-1" -> -1
    [] x = "3" -> 3      [] x = "-3" -> -3     [] x = "22" -> 22
    [] x = "44" -> 44    [] x = "45" -> 45     [] x = "150" -> 150
    [] x = "-170" -> -170 [] x = "-110" -> -110 [] x = "70" -> 70
    [] x = "75" -> 75

\* Sanitize turning a blacklisted cell into the "-" placeholder first and
\* the placeholder into 0
Sanitize_ViaDash(x) ==
  IF x = "-" THEN "0" ELSE IF x \in blacklist THEN "-" ELSE x

\* lambda x: 0 if x in self.blacklist else x
Sanitize(x) == IF x \in blacklist THEN "0" ELSE x

\* DataFrame.fillna(0) on one cell
FillNa(x) == IF x = "NaN" THEN "0" ELSE x

\* ---- team name translation ---------------------------------------------
translator == [s \in {"nfl"} |-> [n \in {"KansasCity"} |-> "Kansas City Chiefs"]]

\* dict.get(key, default)
get(d, key, default) == IF key \in DOMAIN d THEN d[key] ELSE default

\* self.translator.get(self.sport, {}).get(name, name) for a translator tr
translate_with(tr, sp, name) == get(get(tr, sp, <<>>), name, name)

_translate(sp, name) == translate_with(translator, sp, name)

\* The values self.sport is given while a scraper is constructed, in order:
\* OddsScraper.__init__ stores the sport its subclass passes, and
\* NBAOddsScraper and NCAABasketballOddsScraper assign theirs after
\* super().__init__ has returned
sport_assignments(cls) ==
  CASE cls = "NFLOddsScraper"            -> <<"nfl">>
    [] cls = "NBAOddsScraper"            -> <<"nfl", "nba">>
    [] cls = "NCAABasketballOddsScraper" -> <<"nfl", "nba", "ncaa">>
    [] cls = "NHLOddsScraper"            -> <<"nhl">>
    [] cls = "MLBOddsScraper"            -> <<"mlb">>
    [] cls = "NCAABasketball2ndHalf"     -> <<"ncaa2ndhalf">>

\* self.sport left as the base constructor stored it
sport_after_init_Base(cls) == sport_assignments(cls)[1]

\* self.sport of a constructed scraper
sport_after_init(cls) == sport_assignments(cls)[Len(sport_assignments(cls))]

\* ---- _reformat_data (table sports) -------------------------------------
\* One fetched row copied column by column into the new frame.  NFL/NBA
\* sanitize the open, close and 2H columns; NHL sanitizes its moneyline and
\* odds columns; MLB and NCAA copy the cells unchanged.  Only NCAA copies
\* the V/H column.
ReformatRow(sp, season, r, label) ==
  [idx    |-> label,
   season |-> season,
   src    |-> label,
   VH     |-> IF sp = "ncaa" THEN r.VH ELSE "",
   name   |-> r.name,
   open   |-> IF sp \in {"nfl", "nba", "nhl"} THEN Sanitize(r.open) ELSE r.open,
   close  |-> IF sp \in {"nfl", "nba", "nhl"} THEN Sanitize(r.close) ELSE r.close,
   ml     |-> IF sp = "nhl" THEN Sanitize(r.ml) ELSE r.ml,
   h2     |-> IF sp \in {"nfl", "nba", "nhl"} THEN Sanitize(r.h2) ELSE r.h2]

\* The row of the new frame that no fetched row is aligned to: new_df gets
\* the index 0..N-1 from its season column, the fetched rows are labelled
\* 1..N, so label 0 holds NaN in every copied column.
FillerRow(sp, season) ==
  [idx    |-> 0,
   season |-> season,
   src    |-> 0,
   VH     |-> IF sp = "ncaa" THEN "NaN" ELSE "",
   name   |-> "NaN",
   open   |-> "NaN",
   close  |-> "NaN",
   ml     |-> "NaN",
   h2     |-> "NaN"]

\* new_df has len(df) rows labelled 0..N-1; a column assigned from df is
\* aligned on the label, so label j takes the fetched row labelled j and the
\* fetched row labelled N is not copied.
_reformat_data(sp, rows, season) ==
  [j \in 1..Len(rows) |->
     IF j = 1 THEN FillerRow(sp, season)
              ELSE ReformatRow(sp, season, rows[j - 1], j - 1)]

\* NHL converts its odds columns with float(x) inside _reformat_data
ReformatRaises(sp, rows) ==
  /\ sp = "nhl"
  /\ \E j \in 1..(Len(rows) - 1) :
        \E c \in {rows[j].open, rows[j].close, rows[j].h2} :
          c \notin blacklist /\ ~IsFloat(c)

\* ---- _to_schema --------------------------------------------------------
\* df.fillna(0); MLBOddsScraper._to_schema does not call it
fillna(sp, d) ==
  IF sp = "mlb" THEN d
  ELSE [k \in 1..Len(d) |->
          [d[k] EXCEPT !.VH = FillNa(@), !.name = FillNa(@), !.open = FillNa(@),
                       !.close = FillNa(@), !.ml = FillNa(@), !.h2 = FillNa(@)]]

\* Keep with the NCAA test reading the first row's tag only
Keep_FirstTagOnly(sp, row, next_row) ==
  CASE sp \in {"nfl", "nba", "nhl"} -> row.idx % 2 # 0
    [] sp = "mlb"                   -> row.idx % 2 = 0
    [] sp = "ncaa"                  -> row.VH = "V"

\* The filter applied to the consecutive pair (row, next_row):
\*   NFL/NBA/NHL  if i1 % 2 == 0: continue
\*   MLB          if i1 % 2 != 0: continue
\*   NCAA         if row["VH"] == "V" and next_row["VH"] == "H"
Keep(sp, row, next_row) ==
  CASE sp \in {"nfl", "nba", "nhl"} -> row.idx % 2 # 0
    [] sp = "mlb"                   -> row.idx % 2 = 0
    [] sp = "ncaa"                  -> row.VH = "V" /\ next_row.VH = "H"

\* int()/float() calls made while building the record of a kept pair
RecordRaises(sp, row, next_row) ==
  CASE sp \in {"nfl", "nba"} ->
         \/ ~IsInt(row.ml) \/ ~IsInt(next_row.ml)
         \/ ~IsFloat(row.open) \/ ~IsFloat(next_row.open)
         \/ ~IsFloat(row.close) \/ ~IsFloat(next_row.close)
         \/ ~IsFloat(row.h2) \/ ~IsFloat(next_row.h2)
    [] sp = "nhl" -> ~IsInt(row.ml) \/ ~IsInt(next_row.ml)
    [] OTHER -> FALSE

\* NFLRecord with the away spreads negated from the resolved spread instead of
\* from the home spread
NFLRecord_AwayFromSpread(sp, row, next_row, k) ==
  LET home_ml == int(next_row.ml)
      away_ml == int(row.ml)
      odds1 == float(row.open)
      odds2 == float(next_row.open)
      first == odds1 < odds2
      open_spread  == IF first THEN odds1 ELSE odds2
      close_spread == IF first THEN float(row.close) ELSE float(next_row.close)
      h2_spread    == IF first THEN float(row.h2) ELSE float(next_row.h2)
      h2_total     == IF first THEN float(next_row.h2) ELSE float(row.h2)
      open_ou      == IF first THEN odds2 ELSE odds1
      close_ou     == IF first THEN float(next_row.close) ELSE float(row.close)
      home_open_spread  == IF home_ml < away_ml THEN -open_spread ELSE open_spread
      away_open_spread  == -open_spread
      home_close_spread == IF home_ml < away_ml THEN -close_spread ELSE close_spread
      away_close_spread == -close_spread
      h2_home_spread    == IF home_ml < away_ml THEN -h2_spread ELSE h2_spread
      h2_away_spread    == -h2_spread
  IN [season |-> row.season,
      home_team |-> _translate(sp, next_row.name),
      away_team |-> _translate(sp, row.name),
      home_close_ml |-> home_ml,
      away_close_ml |-> away_ml,
      home_open_spread |-> home_open_spread,
      away_open_spread |-> away_open_spread,
      home_close_spread |-> home_close_spread,
      away_close_spread |-> away_close_spread,
      home_2H_spread |-> h2_home_spread,
      away_2H_spread |-> h2_away_spread,
      h2_total |-> h2_total,
      open_over_under |-> open_ou,
      close_over_under |-> close_ou,
      rows |-> <<k, k + 1>>]

\* NFLOddsScraper._to_schema loop body (NBA inherits it)
NFLRecord(sp, row, next_row, k) ==
  LET home_ml == int(next_row.ml)
      away_ml == int(row.ml)
      odds1 == float(row.open)
      odds2 == float(next_row.open)
      first == odds1 < odds2
      open_spread  == IF first THEN odds1 ELSE odds2
      close_spread == IF first THEN float(row.close) ELSE float(next_row.close)
      h2_spread    == IF first THEN float(row.h2) ELSE float(next_row.h2)
      h2_total     == IF first THEN float(next_row.h2) ELSE float(row.h2)
      open_ou      == IF first THEN odds2 ELSE odds1
      close_ou     == IF first THEN float(next_row.close) ELSE float(row.close)
      home_open_spread  == IF home_ml < away_ml THEN -open_spread ELSE open_spread
      away_open_spread  == -home_open_spread
      home_close_spread == IF home_ml < away_ml THEN -close_spread ELSE close_spread
      away_close_spread == -home_close_spread
      h2_home_spread    == IF home_ml < away_ml THEN -h2_spread ELSE h2_spread
      h2_away_spread    == -h2_home_spread
  IN [season |-> row.season,
      home_team |-> _translate(sp, next_row.name),
      away_team |-> _translate(sp, row.name),
      home_close_ml |-> home_ml,
      away_close_ml |-> away_ml,
      home_open_spread |-> home_open_spread,
      away_open_spread |-> away_open_spread,
      home_close_spread |-> home_close_spread,
      away_close_spread |-> away_close_spread,
      home_2H_spread |-> h2_home_spread,
      away_2H_spread |-> h2_away_spread,
      h2_total |-> h2_total,
      open_over_under |-> open_ou,
      close_over_under |-> close_ou,
      rows |-> <<k, k + 1>>]

\* NHLOddsScraper._to_schema loop body
NHLRecord(sp, row, next_row, k) ==
  [season |-> row.season,
   home_team |-> _translate(sp, next_row.name),
   away_team |-> _translate(sp, row.name),
   home_close_ml |-> int(next_row.ml),
   away_close_ml |-> int(row.ml),
   home_close_spread |-> next_row.close,
   away_close_spread |-> row.close,
   rows |-> <<k, k + 1>>]

\* MLBOddsScraper._to_schema loop body
MLBRecord(sp, row, next_row, k) ==
  [season |-> row.season,
   home_team |-> _translate(sp, next_row.name),
   away_team |-> _translate(sp, row.name),
   home_close_ml |-> next_row.ml,
   away_close_ml |-> row.ml,
   home_close_spread |-> next_row.close,
   away_close_spread |-> row.close,
   rows |-> <<k, k + 1>>]

\* NCAABasketballOddsScraper._to_schema loop body
NCAARecord(sp, row, next_row, k) ==
  [season |-> row.season,
   home_team |-> _translate(sp, next_row.name),
   away_team |-> _translate(sp, row.name),
   home_open |-> next_row.open,
   away_open |-> row.open,
   home_close |-> next_row.close,
   away_close |-> row.close,
   home_ml |-> next_row.ml,
   away_ml |-> row.ml,
   home_2H |-> next_row.h2,
   away_2H |-> row.h2,
   rows |-> <<k, k + 1>>]

Record(sp, row, next_row, k) ==
  CASE sp \in {"nfl", "nba"} -> NFLRecord(sp, row, next_row, k)
    [] sp = "nhl"            -> NHLRecord(sp, row, next_row, k)
    [] sp = "mlb"            -> MLBRecord(sp, row, next_row, k)
    [] sp = "ncaa"           -> NCAARecord(sp, row, next_row, k)

\* _pairwise(progress) after next(progress): the consecutive pairs
\* (d[k], d[k+1]) for k = 2 .. Len(d)-1, in order
RECURSIVE _pairwise(_, _, _)
_pairwise(sp, d, k) ==
  IF k >= Len(d) THEN <<>>
  ELSE (IF Keep(sp, d[k], d[k + 1]) THEN <<Record(sp, d[k], d[k + 1], k)>> ELSE <<>>)
       \o _pairwise(sp, d, k + 1)

\* next(progress) on an empty frame raises StopIteration; a failed int() or
\* float() raises ValueError.  Neither is caught by the driver.
ToSchemaRaises(sp, d0) ==
  LET d == fillna(sp, d0) IN
  \/ Len(d) = 0
  \/ \E k \in 2..(Len(d) - 1) :
        Keep(sp, d[k], d[k + 1]) /\ RecordRaises(sp, d[k], d[k + 1])

\* new_df = self.schema.copy(): a shallow copy, its values are the very
\* lists of self.schema, so new_df starts with what those lists hold
SchemaCopy(sch) == sch

\* the records of the loop; the rows are appended to the lists of new_df
_to_schema(sp, d0) == _pairwise(sp, fillna(sp, d0), 2)

\* what the loop has appended when a conversion raises: the records of the
\* pairs before the failing one and, for NHL, the fields of the failing
\* pair that are appended before its first int() call
RECURSIVE AppendedBeforeRaise(_, _, _)
AppendedBeforeRaise(sp, d, k) ==
  IF k >= Len(d) THEN <<>>
  ELSE IF Keep(sp, d[k], d[k + 1])
    THEN IF RecordRaises(sp, d[k], d[k + 1])
           THEN IF sp = "nhl"
                  THEN <<[season |-> d[k].season,
                          home_team |-> _translate(sp, d[k + 1].name),
                          away_team |-> _translate(sp, d[k].name),
                          rows |-> <<k, k + 1>>]>>
                  ELSE <<>>
           ELSE <<Record(sp, d[k], d[k + 1], k)>> \o AppendedBeforeRaise(sp, d, k + 1)
    ELSE AppendedBeforeRaise(sp, d, k + 1)

\* ---- the table drivers --------------------------------------------------
\* OddsScraper.driver (NFL, NBA) and NCAABasketballOddsScraper.driver wrap
\* the fetch in try/except ValueError; NHLOddsScraper.driver and
\* MLBOddsScraper.driver do not.
CatchesValueError(sp) == sp \in {"nfl", "nba", "ncaa"}

UnitFails(sp, unit) == IF unit.ok THEN ReformatRaises(sp, unit.rows) ELSE TRUE

\* df = pd.concat([df, self._reformat_data(dfs[0][1:], season)], axis=0)
driver_fetch ==
  /\ pc = "loop"
  /\ season_i <= Len(seasons)
  /\ ~UnitFails(sport, tables[season_i])
  /\ df' = df \o _reformat_data(sport, tables[season_i].rows, seasons[season_i])
  /\ season_i' = season_i + 1
  /\ UNCHANGED <<sport, seasons, tables, pc, out>>
  /\ UNCHANGED hvars
  /\ UNCHANGED fvars
  /\ UNCHANGED mvars

\* except ValueError: print warning; continue
driver_skip ==
  /\ pc = "loop"
  /\ season_i <= Len(seasons)
  /\ UnitFails(sport, tables[season_i])
  /\ CatchesValueError(sport)
  /\ season_i' = season_i + 1
  /\ UNCHANGED <<sport, seasons, tables, df, pc, out>>
  /\ UNCHANGED hvars
  /\ UNCHANGED fvars
  /\ UNCHANGED mvars

\* the ValueError leaves the driver
driver_abort ==
  /\ pc = "loop"
  /\ season_i <= Len(seasons)
  /\ UnitFails(sport, tables[season_i])
  /\ ~CatchesValueError(sport)
  /\ pc' = "raised"
  /\ UNCHANGED <<sport, seasons, tables, season_i, df, out>>
  /\ UNCHANGED hvars
  /\ UNCHANGED fvars
  /\ UNCHANGED mvars

\* return self._to_schema(df): the frame built from new_df holds what the
\* lists of self.schema hold after the loop, and those lists keep it
driver_return ==
  /\ pc = "loop"
  /\ season_i > Len(seasons)
  /\ IF ToSchemaRaises(sport, df)
       THEN /\ pc' = "raised"
            /\ out' = <<>>
            /\ schema' = SchemaCopy(schema) \o AppendedBeforeRaise(sport, fillna(sport, df), 2)
       ELSE /\ pc' = "done"
            /\ out' = SchemaCopy(schema) \o _to_schema(sport, df)
            /\ schema' = SchemaCopy(schema) \o _to_schema(sport, df)
  /\ UNCHANGED <<sport, seasons, tables, season_i, df>>
  /\ UNCHANGED <<dates, date_i, all_data, final_df, pc2>>
  /\ UNCHANGED fvars
  /\ UNCHANGED mvars

\* The frame a whole run of the loop builds from units k.. of the seasons ss
\* and their fetch outcomes ts, and the result of driver() on a new scraper
RECURSIVE driver_frame(_, _, _, _)
driver_frame(sp, ss, ts, k) ==
  IF k > Len(ss) THEN <<>>
  ELSE (IF UnitFails(sp, ts[k]) THEN <<>> ELSE _reformat_data(sp, ts[k].rows, ss[k]))
       \o driver_frame(sp, ss, ts, k + 1)

driver(sp, ss, ts) ==
  LET frame == driver_frame(sp, ss, ts, 1)
      raised == \/ \E k \in 1..Len(ss) : UnitFails(sp, ts[k]) /\ ~CatchesValueError(sp)
                \/ ToSchemaRaises(sp, frame)
  IN [raised |-> raised,
      out    |-> IF raised THEN <<>> ELSE _to_schema(sp, frame)]

\* ---- inputs of the table drivers ----------------------------------------
Tags == {"V", "H", "N"}

VisitorRow(t) == [VH |-> t, name |-> "Lions", open |-> "45", close |-> "44",
                  ml |-> "150", h2 |-> "22"]

HomeRow(t) == [VH |-> t, name |-> "Chiefs", open |-> "3", close |-> "3.5",
               ml |-> "-170", h2 |-> "1"]

\* a table listing each game's visitor row followed by its home row
GameRows(n) == [j \in 1..n |-> IF j % 2 = 1 THEN VisitorRow("V") ELSE HomeRow("H")]

\* a table whose V/H column holds any tags
TaggedRows(tags) ==
  [j \in 1..Len(tags) |-> IF tags[j] = "H" THEN HomeRow("H") ELSE VisitorRow(tags[j])]

\* the fetch outcomes of one season for a sport that does not read the V/H column
Units == {NoTable} \cup {Table(GameRows(n)) : n \in 0..MaxRows}

\* seasons cut from one tagged row list: lens[j] < 0 is a season without table
RECURSIVE SumLens(_, _)
SumLens(lens, n) ==
  IF n = 0 THEN 0 ELSE (IF lens[n] > 0 THEN lens[n] ELSE 0) + SumLens(lens, n - 1)

Cut(tags, lens, j) ==
  IF lens[j] < 0 THEN NoTable
  ELSE Table(TaggedRows(SubSeq(tags, SumLens(lens, j - 1) + 1, SumLens(lens, j))))

YearsFrom(n) == [j \in 1..n |-> MIN_YEAR + j - 1]

AwayRows ==
  {[VH |-> "V", name |-> "Lions", open |-> o, close |-> c, ml |-> m, h2 |-> h] :
     o \in {"-3", "3", "45", "pk"}, c \in {"-3.5", "44"},
     m \in {"150", "-170", "-110", "NL"}, h \in {"1", "22"}}

HomeRows ==
  {[VH |-> "H", name |-> "Chiefs", open |-> o, close |-> c, ml |-> m, h2 |-> h] :
     o \in {"-3", "3", "45", "pk"}, c \in {"3.5", "44"},
     m \in {"150", "-170", "-110"}, h \in {"-1", "22"}}

\* no helper call is under way
IdleFn ==
  /\ fn = "none"
  /\ arg = <<>>
  /\ ret = <<>>

\* cli.main not started
IdleMain ==
  /\ args = <<>>
  /\ env = <<>>
  /\ scraper = "unbound"
  /\ mpc = "idle"
  /\ saved = FALSE
  /\ error = "none"

Idle2H ==
  /\ dates = <<>>
  /\ date_i = 1
  /\ schema = <<>>
  /\ all_data = <<>>
  /\ final_df = <<>>
  /\ pc2 = "idle"

\* seasons of tables that list whole games, of any length up to MaxRows
InitSeasons ==
  /\ sport \in {"nfl", "nba", "nhl", "mlb"}
  /\ \E n \in 1..MaxSeasons :
        /\ seasons = YearsFrom(n)
        /\ tables \in [1..n -> Units]

\* NCAA seasons whose V/H column holds any tags, MaxRows rows in total
InitTagged ==
  /\ sport = "ncaa"
  /\ \E n \in 1..MaxSeasons, L \in 0..MaxRows :
        /\ seasons = YearsFrom(n)
        /\ \E tags \in [1..L -> Tags], lens \in [1..n -> -1..L] :
              /\ SumLens(lens, n) = L
              /\ tables = [j \in 1..n |-> Cut(tags, lens, j)]

\* one season holding one game with any odds cells, with or without a row after it
InitOdds ==
  /\ sport \in {"nfl", "nba", "ncaa"}
  /\ seasons = YearsFrom(1)
  /\ \E a \in AwayRows, h \in HomeRows :
        tables \in {<<Table(<<a, h>>)>>, <<Table(<<a, h, VisitorRow("V")>>)>>}

Init ==
  /\ InitSeasons \/ InitTagged \/ InitOdds
  /\ season_i = 1
  /\ df = <<>>
  /\ pc = "loop"
  /\ out = <<>>
  /\ Idle2H
  /\ IdleFn
  /\ IdleMain

Next == driver_fetch \/ driver_skip \/ driver_abort \/ driver_return

Spec == Init /\ [][Next]_vars

\* ---- NCAABasketball2ndHalf ------------------------------------------------
\* self.schema is a dict of lists and a column is one list; the model keeps
\* the columns together as the sequence of records they hold.

\* row.iloc[i] if len(row) > i else "": cell i (counted from 0) of a row of
\* ncols cells
Cell(row, ncols, i, value) == IF ncols > i THEN value ELSE ""

\* The two per-team records _reformat_data appends for one game row of a
\* table of ncols columns
TeamRecords(row, ncols, date) ==
  [team_idx \in 1..2 |->
     [date |-> date,
      rotation |-> row.rotation,
      team_idx |-> team_idx - 1,
      time |-> Cell(row, ncols, 0, row.time),
      wagers_percent |-> Cell(row, ncols, 3, row.wagers)]]

RECURSIVE AppendRows(_, _, _, _)
AppendRows(new_df, rows, ncols, date) ==
  IF rows = <<>> THEN new_df
  ELSE AppendRows(new_df \o TeamRecords(Head(rows), ncols, date), Tail(rows), ncols, date)

\* NCAABasketball2ndHalf._reformat_data: the lists after the loop
Reformat2H(sch, rows, ncols, date) == AppendRows(SchemaCopy(sch), rows, ncols, date)

\* pd.concat(all_data, ignore_index=True)
RECURSIVE Concat(_)
Concat(frames) == IF frames = <<>> THEN <<>> ELSE Head(frames) \o Concat(Tail(frames))

\* success and df is not None: processed_df = self._reformat_data(df, date)
h2_process ==
  /\ pc2 = "loop"
  /\ date_i <= Len(dates)
  /\ dates[date_i].ok
  /\ LET processed_df == Reformat2H(schema, dates[date_i].rows, dates[date_i].ncols,
                                     dates[date_i].date) IN
       \* the appends went to the lists self.schema holds
       /\ schema' = processed_df
       /\ all_data' = IF processed_df # <<>> THEN Append(all_data, processed_df)
                                            ELSE all_data
  /\ date_i' = date_i + 1
  /\ UNCHANGED <<dates, final_df, pc2>>
  /\ UNCHANGED tvars
  /\ UNCHANGED fvars
  /\ UNCHANGED mvars

\* _try_url_patterns returned (False, None)
h2_unavailable ==
  /\ pc2 = "loop"
  /\ date_i <= Len(dates)
  /\ ~dates[date_i].ok
  /\ date_i' = date_i + 1
  /\ UNCHANGED <<dates, schema, all_data, final_df, pc2>>
  /\ UNCHANGED tvars
  /\ UNCHANGED fvars
  /\ UNCHANGED mvars

\* after the loop: the concatenation of all_data, or an empty frame
h2_return ==
  /\ pc2 = "loop"
  /\ date_i > Len(dates)
  /\ final_df' = Concat(all_data)
  /\ pc2' = "done"
  /\ UNCHANGED <<dates, date_i, schema, all_data>>
  /\ UNCHANGED tvars
  /\ UNCHANGED fvars
  /\ UNCHANGED mvars

GameRows2H(n) == [j \in 1..n |-> [rotation |-> j, time |-> "7:00 PM", wagers |-> "55%"]]

\* the columns _reformat_data reads (0..10), and the widths a fetched
\* table can have: all of them, or time, rotation and teams only
ExpectedCols == 11

Widths == {3, ExpectedCols}

DateUnits(d) ==
  {[ok |-> FALSE, date |-> d, ncols |-> 0, rows |-> <<>>]} \cup
  {[ok |-> TRUE, date |-> d, ncols |-> w, rows |-> GameRows2H(n)] :
     n \in 0..MaxGames, w \in Widths}

IdleTables ==
  /\ sport = "ncaa2ndhalf"
  /\ seasons = <<>>
  /\ tables = <<>>
  /\ season_i = 1
  /\ df = <<>>
  /\ pc = "idle"
  /\ out = <<>>

Init2H ==
  /\ \E n \in 0..MaxDates :
        /\ dates \in [1..n -> UNION {DateUnits(d) : d \in 1..n}]
        /\ \A j \in 1..n : dates[j].date = j
  /\ date_i = 1
  /\ schema = <<>>
  /\ all_data = <<>>
  /\ final_df = <<>>
  /\ pc2 = "loop"
  /\ IdleTables
  /\ IdleFn
  /\ IdleMain

Next2H == h2_process \/ h2_unavailable \/ h2_return

Spec2H == Init2H /\ [][Next2H]_vars

\* ---- helper calls ----------------------------------------------------------
\* A Python str of digits is the sequence of its characters.
Digits == <<"0", "1", "2", "3", "4", "5", "6", "7", "8", "9">>

Chr(d) == Digits[d + 1]

Ord(c) == CHOOSE d \in 0..9 : Digits[d + 1] = c

\* str(n) for an int n >= 0: its decimal digits, no leading zero
RECURSIVE str(_)
str(n) == IF n < 10 THEN <<Chr(n)>> ELSE str(n \div 10) \o <<Chr(n % 10)>>

\* int(s) for a non-empty str of digits: leading zeros are ignored
RECURSIVE int_str(_)
int_str(s) ==
  IF s = <<>> THEN 0
  ELSE int_str(SubSeq(s, 1, Len(s) - 1)) * 10 + Ord(s[Len(s)])

\* season = str(season); yr = season[2:]; next_yr = str(int(yr) + 1);
\* return f"{season}-{next_yr}"
_make_season(season) ==
  LET s == str(season)
      yr == SubSeq(s, 3, Len(s))
      next_yr == str(int_str(yr) + 1)
  IN s \o <<"-">> \o next_yr

\* _make_datestr without the padding of a three-character date
_make_datestr_NoPad(date, season, start, yr_end) ==
  LET month == SubSeq(date, 1, 2)
      day == SubSeq(date, 3, Len(date))
  IN IF int_str(month) \in start..yr_end
       THEN int_str(str(season) \o month \o day)
       ELSE int_str(str(season + 1) \o month \o day)

\* date = str(date); if len(date) == 3: date = f"0{date}"; month = date[:2];
\* day = date[2:]; the year is the season when int(month) is in
\* range(start, yr_end + 1) and the season plus one otherwise
_make_datestr(date, season, start, yr_end) ==
  LET d == IF Len(date) = 3 THEN <<"0">> \o date ELSE date
      month == SubSeq(d, 1, 2)
      day == SubSeq(d, 3, Len(d))
  IN IF int_str(month) \in start..yr_end
       THEN int_str(str(season) \o month \o day)
       ELSE int_str(str(season + 1) \o month \o day)

\* season_str = self._make_season(season)
make_season_call ==
  /\ fn = "_make_season"
  /\ ret = <<>>
  /\ ret' = <<_make_season(arg.season)>>
  /\ UNCHANGED <<fn, arg>>
  /\ UNCHANGED tvars
  /\ UNCHANGED hvars
  /\ UNCHANGED mvars

\* df[0].apply(lambda x: self._make_datestr(x, season, start, yr_end))
make_datestr_call ==
  /\ fn = "_make_datestr"
  /\ ret = <<>>
  /\ ret' = <<_make_datestr(arg.date, arg.season, arg.start, arg.yr_end)>>
  /\ UNCHANGED <<fn, arg>>
  /\ UNCHANGED tvars
  /\ UNCHANGED hvars
  /\ UNCHANGED mvars

\* One odds cell through the sanitizing step of _reformat_data and the
\* conversion that consumes it.  NFL/NBA: 0 if x in blacklist else x, then
\* fillna(0) and float() in _to_schema.  NHL: 0 if x in blacklist else
\* float(x) in _reformat_data, then fillna(0).  once is the cell after the
\* blacklist filter; a failed float() raises ValueError at the stage named.
sanitized_odds(sp, x) ==
  LET once == Sanitize(x)
      cell == FillNa(once)
  IN [once   |-> once,
      raised |-> ~IsFloat(cell),
      stage  |-> IF sp = "nhl" THEN "_reformat_data" ELSE "_to_schema",
      value  |-> IF IsFloat(cell) THEN float(cell) ELSE 0]

sanitize_call ==
  /\ fn = "sanitize"
  /\ ret = <<>>
  /\ ret' = <<sanitized_odds(arg.sport, arg.cell)>>
  /\ UNCHANGED <<fn, arg>>
  /\ UNCHANGED tvars
  /\ UNCHANGED hvars
  /\ UNCHANGED mvars

\* the cells an odds column can hold: the blacklisted tokens, decimal
\* literals, a missing cell, and tokens that are neither
NumericCells == {"0", "1", "-1", "3", "-3", "3.5", "-3.5", "22", "44", "45",
                 "150", "-170", "-110", "70", "75", "75.5"}

OddsCells == blacklist \cup NumericCells \cup {"NaN", "ev", "a115"}

InitSanitize ==
  /\ fn = "sanitize"
  /\ arg \in [sport : {"nfl", "nba", "nhl"}, cell : OddsCells]

\* ---- _parse_teams_and_scores ----
\* The Teams cell is the sequence of its whitespace-separated tokens, joined
\* by single blanks; a cell that is not a str (NaN) has is_str = FALSE.  A
\* name is the sequence of its tokens.

\* text.split(sep) for sep = " - " or " @ ": a token equal to the separator
\* character splits the text when it has a blank on both sides that no
\* earlier occurrence has used, so not as first or last token and not right
\* after a token that split the text
RECURSIVE split_FirstOnly(_, _, _, _, _)
\* text.split(sep, 1): split at the first occurrence only
split_FirstOnly(text, sep, i, cur, after_sep) ==
  IF i > Len(text) THEN <<cur>>
  ELSE IF text[i] = sep /\ 1 < i /\ i < Len(text)
    THEN <<cur, SubSeq(text, i + 1, Len(text))>>
    ELSE split_FirstOnly(text, sep, i + 1, Append(cur, text[i]), FALSE)

RECURSIVE split(_, _, _, _, _)
split(text, sep, i, cur, after_sep) ==
  IF i > Len(text) THEN <<cur>>
  ELSE IF text[i] = sep /\ 1 < i /\ i < Len(text) /\ ~after_sep
    THEN <<cur>> \o split(text, sep, i + 1, <<>>, TRUE)
    ELSE split(text, sep, i + 1, Append(cur, text[i]), FALSE)

\* sep in text
contains(text, sep) == \E i \in 2..(Len(text) - 1) : text[i] = sep

\* the for loop over range(1, len(words) - 2): the first i with int(words[i])
\* and int(words[i + 2]) both defined; words[i] is token i + 1 here
ScoreIndexes(words) ==
  {i \in 1..(Len(words) - 3) : IsInt(words[i + 1]) /\ IsInt(words[i + 3])}

Min(S) == CHOOSE x \in S : \A y \in S : x <= y

\* parts with the middle split taken for any number of words
parts_of_MidpointAlways(text) ==
  IF contains(text, "-") THEN split(text, "-", 1, <<>>, FALSE)
  ELSE IF contains(text, "@") THEN split(text, "@", 1, <<>>, FALSE)
  ELSE IF ScoreIndexes(text) # {}
    THEN LET i == Min(ScoreIndexes(text))
         IN <<SubSeq(text, 1, i + 1), SubSeq(text, i + 2, Len(text))>>
    ELSE LET mid == Len(text) \div 2
         IN <<SubSeq(text, 1, mid), SubSeq(text, mid + 1, Len(text))>>

\* parts as built by the three branches; fewer than four words without a
\* separator return the placeholders at once, shown here as no parts
parts_of(text) ==
  IF contains(text, "-") THEN split(text, "-", 1, <<>>, FALSE)
  ELSE IF contains(text, "@") THEN split(text, "@", 1, <<>>, FALSE)
  ELSE IF Len(text) >= 4
    THEN IF ScoreIndexes(text) # {}
           THEN LET i == Min(ScoreIndexes(text))
                IN <<SubSeq(text, 1, i + 1), SubSeq(text, i + 2, Len(text))>>
           ELSE LET mid == Len(text) \div 2
                IN <<SubSeq(text, 1, mid), SubSeq(text, mid + 1, Len(text))>>
    ELSE <<>>

\* parse_part keeping the score token in the name
parse_part_KeepsScore(part) ==
  IF Len(part) >= 2 /\ IsInt(part[Len(part)])
    THEN <<part, int(part[Len(part)])>>
    ELSE <<part, 0>>

\* parse_part taking the score from a part of one token too
parse_part_AnyLength(part) ==
  IF Len(part) >= 1 /\ IsInt(part[Len(part)])
    THEN <<SubSeq(part, 1, Len(part) - 1), int(part[Len(part)])>>
    ELSE <<part, 0>>

\* team_parts = part.strip().split(); the last token is the score when
\* there are two tokens or more and int() accepts it, else the score is 0
\* and the whole part is the name
parse_part(part) ==
  IF Len(part) >= 2 /\ IsInt(part[Len(part)])
    THEN <<SubSeq(part, 1, Len(part) - 1), int(part[Len(part)])>>
    ELSE <<part, 0>>

\* return "Team1", 0, "Team2", 0
Placeholders == <<<<"Team1">>, 0, <<"Team2">>, 0>>

\* the body of the try block: teams_text.strip() raises AttributeError on a
\* cell that is not a str
parse_teams_body(cell) ==
  IF ~cell.is_str THEN [raised |-> TRUE, value |-> <<>>]
  ELSE LET parts == parts_of(cell.text)
       IN IF Len(parts) # 2 THEN [raised |-> FALSE, value |-> Placeholders]
          ELSE [raised |-> FALSE,
                value  |-> parse_part(parts[1]) \o parse_part(parts[2])]

\* _parse_teams_and_scores with the exception leaving the method
_parse_teams_and_scores_NoExcept(cell) == parse_teams_body(cell)

\* except Exception: return "Team1", 0, "Team2", 0
_parse_teams_and_scores(cell) ==
  IF parse_teams_body(cell).raised
    THEN [raised |-> FALSE, value |-> Placeholders]
    ELSE parse_teams_body(cell)

parse_teams_call ==
  /\ fn = "_parse_teams_and_scores"
  /\ ret = <<>>
  /\ ret' = <<_parse_teams_and_scores(arg)>>
  /\ UNCHANGED <<fn, arg>>
  /\ UNCHANGED tvars
  /\ UNCHANGED hvars
  /\ UNCHANGED mvars

\* the Teams cells: every text of up to MaxWords tokens, the docstring's
\* example with the separator " - ", and a cell that is not a str
Words == {"Duke", "UNC", "75", "-", "@"}

Texts == UNION {[1..n -> Words] : n \in 0..MaxWords}

DukeCarolina == <<"Duke", "75", "-", "North", "Carolina", "70">>

InitParseTeams ==
  /\ fn = "_parse_teams_and_scores"
  /\ \/ arg \in [is_str : {TRUE}, text : Texts \cup {DukeCarolina}]
     \/ arg = [is_str |-> FALSE, text |-> <<>>]

\* ---- _parse_opener, _parse_sportsbook_odds ----
\* An OPENER or sportsbook cell is the sequence of its whitespace-separated
\* tokens (text.split()); a cell that is not a str has is_str = FALSE and
\* split() raises AttributeError on it.

\* return "", 0, ""
EmptyOpener == <<"", 0, "">>

\* return 0, ""
EmptyOdds == <<0, "">>

\* _parse_opener reading the total from the first part
_parse_opener_TotalFirst(cell) ==
  IF ~cell.is_str THEN EmptyOpener
  ELSE IF Len(cell.text) >= 3
    THEN IF IsFloat(cell.text[1])
           THEN <<cell.text[1], float(cell.text[1]), cell.text[3]>>
           ELSE EmptyOpener
    ELSE EmptyOpener

\* parts = opener_text.split(); with three parts or more: parts[0],
\* float(parts[1]), parts[2]; the bare except returns "", 0, "" when split()
\* or float() raises
_parse_opener(cell) ==
  IF ~cell.is_str THEN EmptyOpener
  ELSE IF Len(cell.text) >= 3
    THEN IF IsFloat(cell.text[2])
           THEN <<cell.text[1], float(cell.text[2]), cell.text[3]>>
           ELSE EmptyOpener
    ELSE EmptyOpener

\* parts = odds_text.split(); two parts or more: float(parts[0]), parts[1];
\* one part: 0, parts[0]; none: 0, ""; the bare except returns 0, ""
_parse_sportsbook_odds(cell) ==
  IF ~cell.is_str THEN EmptyOdds
  ELSE IF Len(cell.text) >= 2
    THEN IF IsFloat(cell.text[1])
           THEN <<float(cell.text[1]), cell.text[2]>>
           ELSE EmptyOdds
    ELSE IF Len(cell.text) = 1 THEN <<0, cell.text[1]>>
    ELSE EmptyOdds

parse_opener_call ==
  /\ fn = "_parse_opener"
  /\ ret = <<>>
  /\ ret' = <<_parse_opener(arg)>>
  /\ UNCHANGED <<fn, arg>>
  /\ UNCHANGED tvars
  /\ UNCHANGED hvars
  /\ UNCHANGED mvars

parse_sportsbook_odds_call ==
  /\ fn = "_parse_sportsbook_odds"
  /\ ret = <<>>
  /\ ret' = <<_parse_sportsbook_odds(arg)>>
  /\ UNCHANGED <<fn, arg>>
  /\ UNCHANGED tvars
  /\ UNCHANGED hvars
  /\ UNCHANGED mvars

\* the tokens of an odds cell: directions, a line, prices, and tokens that
\* are none of these
OddsWords == {"O", "U", "X", "75.5", "-110", "abc"}

OddsTexts == UNION {[1..n -> OddsWords] : n \in 0..MaxParts}

InitParseOdds ==
  /\ fn \in {"_parse_opener", "_parse_sportsbook_odds"}
  /\ \/ arg \in [is_str : {TRUE}, text : OddsTexts]
     \/ arg = [is_str |-> FALSE, text |-> <<>>]

\* ---- _translate ----
translate_call ==
  /\ fn = "_translate"
  /\ ret = <<>>
  /\ ret' = <<translate_with(arg.translator, sport_after_init(arg.cls), arg.name)>>
  /\ UNCHANGED <<fn, arg>>
  /\ UNCHANGED tvars
  /\ UNCHANGED hvars
  /\ UNCHANGED mvars

ScraperClasses == {"NFLOddsScraper", "NBAOddsScraper", "NCAABasketballOddsScraper",
                   "NHLOddsScraper", "MLBOddsScraper", "NCAABasketball2ndHalf"}

SportKeys == {"nfl", "nba", "nhl", "mlb", "ncaa", "ncaa2ndhalf"}

RawNames == {"KansasCity", "Lions"}

\* the entry a table holds for a name under a sport key
Canonical(key, name) ==
  IF name = "Lions" THEN "Detroit Lions"
  ELSE CASE key = "nfl" -> "Kansas City Chiefs"
         [] key = "nba" -> "Kansas City Kings"
         [] key = "nhl" -> "Kansas City Scouts"
         [] key = "mlb" -> "Kansas City Royals"
         [] key = "ncaa" -> "Kansas City Roos"
         [] key = "ncaa2ndhalf" -> "Kansas City Roos 2H"

\* the contents of config/translated.json: entries for any sport keys and
\* any of the names; no keys at all is also what a missing file gives
Translators ==
  {[key \in keys |-> [name \in names |-> Canonical(key, name)]] :
     keys \in SUBSET SportKeys, names \in SUBSET RawNames}

InitTranslate ==
  /\ fn = "_translate"
  /\ arg \in [cls : ScraperClasses, translator : Translators, name : RawNames]

\* the years a run can be asked for
Years == MIN_YEAR..(MIN_YEAR + MaxYearSpan)

\* the cells of the date column: month and day written as one number, with
\* or without the leading zero of a one-digit month
DateCells ==
  {str(m * 100 + d) : m \in 1..12, d \in DaySamples}
    \cup {<<"0">> \o str(m * 100 + d) : m \in 1..9, d \in DaySamples}

InitMakeSeason ==
  /\ fn = "_make_season"
  /\ arg \in [season : Years]

InitMakeDatestr ==
  /\ fn = "_make_datestr"
  /\ arg \in {a \in [date : DateCells, season : {MIN_YEAR, MIN_YEAR + MaxYearSpan},
                      start : 1..12, yr_end : 1..12] : a.start <= a.yr_end}

InitFn ==
  /\ \/ InitMakeSeason \/ InitMakeDatestr \/ InitSanitize \/ InitParseTeams
     \/ InitParseOdds \/ InitTranslate
  /\ ret = <<>>
  /\ IdleTables
  /\ Idle2H
  /\ IdleMain

NextFn ==
  \/ make_season_call \/ make_datestr_call \/ sanitize_call \/ parse_teams_call
  \/ parse_opener_call \/ parse_sportsbook_odds_call \/ translate_call

SpecFn == InitFn /\ [][NextFn]_vars

\* ---- cli.main ---------------------------------------------------------------
\* args is what parser.parse_args() returns: --sport is one of the six
\* choices, --start and --end are <<year>> or <<>> when not given (None),
\* --format is one of its two choices.  env is what the world outside main
\* does in the run: whether Chrome and the page extraction work, whether the
\* file can be written, and what scraper.driver() gives.  mpc is main's
\* position, scraper the local variable of that name, saved whether a file
\* was written, error the message an except branch has printed; a run that
\* has exited has left through sys.exit(1).

\* validate_arguments raises ValueError
ValidateRaises(a) ==
  IF a.sport = "ncaa2ndhalf" THEN FALSE
  ELSE \/ a.start = <<>> \/ a.end = <<>>
       \/ a.start[1] < MIN_YEAR \/ a.end[1] > MAX_YEAR
       \/ a.start[1] > a.end[1]

\* get_scraper_class
get_scraper_class(sp) ==
  CASE sp = "nfl"         -> "NFLOddsScraper"
    [] sp = "nba"         -> "NBAOddsScraper"
    [] sp = "nhl"         -> "NHLOddsScraper"
    [] sp = "mlb"         -> "MLBOddsScraper"
    [] sp = "ncaa"        -> "NCAABasketballOddsScraper"
    [] sp = "ncaa2ndhalf" -> "NCAABasketball2ndHalf"

\* except ValueError: print("Validation Error"); sys.exit(1)
\* except Exception: print("Unexpected Error"); sys.exit(1)
Exits(message) ==
  /\ error' = message
  /\ mpc' = "exited"

\* validate_arguments(args); scraper_class = get_scraper_class(args.sport)
main_validate ==
  /\ mpc = "validate"
  /\ IF ValidateRaises(args)
       THEN Exits("Validation Error")
       ELSE mpc' = "init" /\ UNCHANGED error
  /\ UNCHANGED <<args, env, scraper, saved>>
  /\ UNCHANGED tvars
  /\ UNCHANGED hvars
  /\ UNCHANGED fvars

\* the branch of args.sport == "ncaa2ndhalf": Chrome, the page, the
\* extraction and save_data(df, ...); no scraper is constructed
main_init_2ndhalf ==
  /\ mpc = "init"
  /\ args.sport = "ncaa2ndhalf"
  /\ IF ~env.page_ok
       THEN Exits("Unexpected Error") /\ UNCHANGED saved
       ELSE IF ~env.save_ok
         THEN Exits("Unexpected Error") /\ UNCHANGED saved
         ELSE mpc' = "collect" /\ saved' = TRUE /\ UNCHANGED error
  /\ UNCHANGED <<args, env, scraper>>
  /\ UNCHANGED tvars
  /\ UNCHANGED hvars
  /\ UNCHANGED fvars

\* the else branch: scraper = scraper_class(years_to_scrape)
main_init_scraper ==
  /\ mpc = "init"
  /\ args.sport # "ncaa2ndhalf"
  /\ scraper' = get_scraper_class(args.sport)
  /\ mpc' = "collect"
  /\ UNCHANGED <<args, env, saved, error>>
  /\ UNCHANGED tvars
  /\ UNCHANGED hvars
  /\ UNCHANGED fvars

\* data = scraper.driver(); if data.empty: return.  Reading the local
\* variable scraper when nothing was assigned to it raises
\* UnboundLocalError, an Exception
main_collect ==
  /\ mpc = "collect"
  /\ IF scraper = "unbound" THEN Exits("Unexpected Error")
     ELSE CASE env.driver = "ValueError" -> Exits("Validation Error")
            [] env.driver = "Exception"  -> Exits("Unexpected Error")
            [] env.driver = "empty"      -> mpc' = "returned" /\ UNCHANGED error
            [] env.driver = "data"       -> mpc' = "save" /\ UNCHANGED error
  /\ UNCHANGED <<args, env, scraper, saved>>
  /\ UNCHANGED tvars
  /\ UNCHANGED hvars
  /\ UNCHANGED fvars

\* save_data(data, args.filename, args.format) and the end of main
main_save ==
  /\ mpc = "save"
  /\ IF env.save_ok
       THEN mpc' = "returned" /\ saved' = TRUE /\ UNCHANGED error
       ELSE Exits("Unexpected Error") /\ UNCHANGED saved
  /\ UNCHANGED <<args, env, scraper>>
  /\ UNCHANGED tvars
  /\ UNCHANGED hvars
  /\ UNCHANGED fvars

\* --start and --end as given on the command line
StartArgs == {<<>>, <<MIN_YEAR - 1>>, <<MIN_YEAR>>, <<MAX_YEAR>>}

EndArgs == {<<>>, <<MIN_YEAR>>, <<MAX_YEAR>>, <<MAX_YEAR + 1>>}

\* what scraper.driver() does: a frame with rows, an empty frame, a
\* ValueError (NHL, MLB: a season without table) or another exception
DriverOutcomes == {"data", "empty", "ValueError", "Exception"}

InitMain ==
  /\ args \in [sport : Sports \cup {"ncaa2ndhalf"}, start : StartArgs, end : EndArgs,
               format : {"csv", "json"}]
  /\ env \in [page_ok : BOOLEAN, save_ok : BOOLEAN, driver : DriverOutcomes]
  /\ scraper = "unbound"
  /\ mpc = "validate"
  /\ saved = FALSE
  /\ error = "none"
  /\ IdleTables
  /\ Idle2H
  /\ IdleFn

NextMain ==
  \/ main_validate \/ main_init_2ndhalf \/ main_init_scraper
  \/ main_collect \/ main_save

SpecMain == InitMain /\ [][NextMain]_vars

\* ---- properties -----------------------------------------------------------
Abs(x)== IF x < 0 THEN -x ELSE x

Finished == pc \in {"done", "raised"}

\* the frame _to_schema iterates, and the two rows record p was built from
Frame == fillna(sport, df)

AwayOf(p) == Frame[out[p].rows[1]]

HomeOf(p) == Frame[out[p].rows[2]]

\* positions of final_df holding a record of game row r of date d
RecordsOf(d, r) ==
  {p \in 1..Len(final_df) : final_df[p].date = d /\ final_df[p].rotation = r}

\* C1: when NCAABasketball2ndHalf.driver has returned, the result holds
\* exactly two per-team records for every game row of every fetched date and
\* no other record; no game row of an earlier date is emitted again.
C1_TwoRecordsPerGameRow ==
  pc2 = "done" =>
    /\ \A j \in 1..Len(dates) :
         dates[j].ok =>
           \A i \in 1..Len(dates[j].rows) : Cardinality(RecordsOf(j, i)) = 2
    /\ \A p \in 1..Len(final_df) :
         /\ final_df[p].date \in 1..Len(dates)
         /\ dates[final_df[p].date].ok
         /\ final_df[p].rotation \in 1..Len(dates[final_df[p].date].rows)

\* C2: for every sport driver, a run in which some season has no parseable
\* table is never aborted: the season is skipped and the run completes.
C2_UnavailableUnitNeverAborts ==
  (pc # "idle" /\ \E k \in 1..Len(tables) : ~tables[k].ok) => pc # "raised"

\* C3: a single-season run of NFL, NBA, NHL or MLB over a table of N >= 1
\* data rows ends without error with N/2 records when N is even and with
\* (N-1)/2 records when N is odd.
C3_HalfTheRows ==
  (/\ sport \in {"nfl", "nba", "nhl", "mlb"}
   /\ Len(seasons) = 1
   /\ tables[1].ok
   /\ Len(tables[1].rows) >= 1
   /\ Finished)
  => (pc = "done" /\ Len(out) = Len(tables[1].rows) \div 2)

\* a table that lists each game's visitor row followed by its home row
WellFormed(rows) ==
  \A j \in 1..Len(rows) : rows[j].VH = (IF j % 2 = 1 THEN "V" ELSE "H")

\* C4: for a season table listing visitor row then home row of each game,
\* every record of a parity sport takes its away fields from a visitor row
\* and its home fields from the home row that follows it in the table.
C4_AwayIsVisitorHomeIsHome ==
  (/\ sport \in {"nfl", "nba", "nhl", "mlb"}
   /\ Len(seasons) = 1
   /\ tables[1].ok
   /\ WellFormed(tables[1].rows)
   /\ pc = "done")
  => \A p \in 1..Len(out) :
       LET rows == tables[1].rows
           a == AwayOf(p).src
           h == HomeOf(p).src
       IN /\ a \in 1..Len(rows)
          /\ h = a + 1
          /\ h \in 1..Len(rows)
          /\ rows[a].VH = "V"
          /\ rows[h].VH = "H"
          /\ out[p].away_team = _translate(sport, rows[a].name)
          /\ out[p].home_team = _translate(sport, rows[h].name)

\* C5: in a run over several seasons both rows of every emitted record
\* belong to the same season.
C5_SameSeason ==
  (pc = "done") =>
    \A p \in 1..Len(out) : AwayOf(p).season = HomeOf(p).season

\* C6: every emitted record is built from two distinct adjacent rows of the
\* frame and no row of the frame contributes to two records.
C6_NoRowUsedTwice ==
  (pc = "done") =>
    /\ \A p \in 1..Len(out) : out[p].rows[2] = out[p].rows[1] + 1
    /\ \A p, q \in 1..Len(out) :
         p # q => {out[p].rows[1], out[p].rows[2]} \cap {out[q].rows[1], out[q].rows[2]} = {}

\* C7: NCAA _to_schema ends without error on every non-empty frame the
\* driver hands it, and for adjacent rows (r, r') of the frame a record is
\* emitted exactly when r is tagged V and r' is tagged H; the record takes
\* its away fields from r and its home fields from r'.
C7_RoleTagMatch ==
  (sport = "ncaa" /\ Finished /\ df # <<>>) =>
    /\ pc = "done"
    /\ \A k \in 1..(Len(df) - 1) :
         (\E p \in 1..Len(out) : out[p].rows = <<k, k + 1>>)
           <=> (Frame[k].VH = "V" /\ Frame[k + 1].VH = "H")
    /\ \A p \in 1..Len(out) :
         /\ out[p].away_team = _translate(sport, AwayOf(p).name)
         /\ out[p].home_team = _translate(sport, HomeOf(p).name)
         /\ out[p].away_open = AwayOf(p).open /\ out[p].home_open = HomeOf(p).open
         /\ out[p].away_close = AwayOf(p).close /\ out[p].home_close = HomeOf(p).close
         /\ out[p].away_ml = AwayOf(p).ml /\ out[p].home_ml = HomeOf(p).ml
         /\ out[p].away_2H = AwayOf(p).h2 /\ out[p].home_2H = HomeOf(p).h2
         /\ out[p].season = AwayOf(p).season

\* a finished NCAA run that emitted a record for a V-H adjacency and none for
\* the H-V adjacency that follows it
C7_Witness ==
  /\ sport = "ncaa"
  /\ pc = "done"
  /\ \E k \in 1..(Len(df) - 2) :
       /\ Frame[k].VH = "V" /\ Frame[k + 1].VH = "H" /\ Frame[k + 2].VH = "V"
       /\ \E p \in 1..Len(out) : out[p].rows = <<k, k + 1>>
       /\ \A p \in 1..Len(out) : out[p].rows # <<k + 1, k + 2>>

\* C8: in every record emitted for NFL or NBA the home and away spreads sum
\* to zero, for the opening, the closing and the second-half spread.
C8_ZeroSum ==
  (sport \in {"nfl", "nba"} /\ pc = "done") =>
    \A p \in 1..Len(out) :
      /\ out[p].home_open_spread + out[p].away_open_spread = 0
      /\ out[p].home_close_spread + out[p].away_close_spread = 0
      /\ out[p].home_2H_spread + out[p].away_2H_spread = 0

\* a finished NFL/NBA run with a record whose three spreads are all non-zero
C8_Witness ==
  /\ sport \in {"nfl", "nba"}
  /\ pc = "done"
  /\ \E p \in 1..Len(out) :
       /\ out[p].home_open_spread # 0
       /\ out[p].home_close_spread # 0
       /\ out[p].home_2H_spread # 0

\* C9: in every NFL/NBA record the opening spread magnitude m is the
\* smaller-magnitude one of the two rows' opening values and open_over_under
\* the larger-magnitude one; home_open_spread is -m when the home moneyline
\* is below the away moneyline and +m otherwise; the favorite's spread is
\* never positive.
C9_SmallerMagnitudeIsSpread ==
  (sport \in {"nfl", "nba"} /\ pc = "done") =>
    \A p \in 1..Len(out) :
      LET a == float(AwayOf(p).open)
          h == float(HomeOf(p).open)
          home_ml == int(HomeOf(p).ml)
          away_ml == int(AwayOf(p).ml)
      IN /\ \E c \in {<<a, h>>, <<h, a>>} :
               /\ Abs(c[1]) <= Abs(c[2])
               /\ out[p].open_over_under = c[2]
               /\ out[p].home_open_spread = (IF home_ml < away_ml THEN -c[1] ELSE c[1])
         /\ home_ml < away_ml => out[p].home_open_spread <= 0
         /\ away_ml < home_ml => out[p].away_open_spread <= 0

\* the two data rows of the end-to-end scenario
LionsRow == [VH |-> "V", name |-> "Lions", open |-> "-3", close |-> "-3.5",
             ml |-> "150", h2 |-> "1"]

ChiefsRow == [VH |-> "H", name |-> "Chiefs", open |-> "3", close |-> "3.5",
              ml |-> "-170", h2 |-> "-1"]

\* C10: the NCAA run over one season table whose data rows are the Lions
\* row and the Chiefs row yields one record: home Chiefs, away Lions, home
\* moneyline -170, away moneyline 150, home opening spread -3, away 3.
C10_EndToEnd ==
  (sport = "ncaa" /\ tables = <<Table(<<LionsRow, ChiefsRow>>)>> /\ Finished) =>
    /\ pc = "done"
    /\ Len(out) = 1
    /\ out[1].home_team = "Chiefs"
    /\ out[1].away_team = "Lions"
    /\ int(out[1].home_ml) = -170
    /\ int(out[1].away_ml) = 150
    /\ float(out[1].home_open) = -6
    /\ float(out[1].away_open) = 6

\* two decimal digits, zero-padded
Pad2(n) == <<Chr(n \div 10), Chr(n % 10)>>

\* C11: for every four-digit year Y, _make_season(Y) is Y, a "-", and
\* (Y + 1) mod 100 written with exactly two digits.
C11_SeasonLabel ==
  (fn = "_make_season" /\ ret # <<>>) =>
    ret[1] = str(arg.season) \o <<"-">> \o Pad2((arg.season + 1) % 100)

\* the number MMDD a date cell of three or four digits stands for
MMDD(date) == int_str(date)

\* C12: for a date cell of 3 or 4 digits, a season S and start <= yr_end,
\* _make_datestr returns S*10000 + MMDD when start <= MM <= yr_end and
\* (S+1)*10000 + MMDD otherwise, an integer of eight digits.
C12_DateInt ==
  (fn = "_make_datestr" /\ ret # <<>>) =>
    LET mmdd == MMDD(arg.date)
        mm == mmdd \div 100
        year == IF arg.start <= mm /\ mm <= arg.yr_end THEN arg.season
                                                       ELSE arg.season + 1
    IN /\ ret[1] = year * 10000 + mmdd
       /\ Len(str(ret[1])) = 8

\* a three-digit February cell dated into the year after the season, and a
\* four-digit November cell dated into the season
C12_Witness ==
  /\ fn = "_make_datestr"
  /\ ret # <<>>
  /\ arg.start = 8 /\ arg.yr_end = 12
  /\ \/ arg.date = <<"2", "1", "5">> /\ ret[1] = (arg.season + 1) * 10000 + 215
     \/ arg.date = <<"1", "1", "0", "9">> /\ ret[1] = arg.season * 10000 + 1109

\* C13: sanitizing a raw odds cell (NFL/NBA and NHL _reformat_data with the
\* conversion of _to_schema) never raises and yields a number for any token:
\* 0 for a blacklisted token, the token's numeric value otherwise.
C13_SanitizeTotal ==
  (fn = "sanitize" /\ ret # <<>>) =>
    /\ ~ret[1].raised
    /\ arg.cell \in blacklist => ret[1].value = 0
    /\ arg.cell \in NumericCells => ret[1].value = float(arg.cell)

\* C15: for every blacklisted token and every numeric token, applying the
\* blacklist filter to its own output returns that output unchanged.
C15_SanitizeIdempotent ==
  (fn = "sanitize" /\ ret # <<>> /\ arg.cell \in blacklist \cup NumericCells) =>
    Sanitize(ret[1].once) = ret[1].once

\* the filter has turned a blacklisted cell into 0, and has passed a numeric
\* cell through
C15_Witness ==
  /\ fn = "sanitize"
  /\ ret # <<>>
  /\ \/ arg.cell \in blacklist /\ ret[1].once = "0"
     \/ arg.cell = "-3.5" /\ ret[1].once = "-3.5"

\* every odds, spread, total and moneyline cell of every fetched table is a
\* blacklisted token or a numeric literal
CleanTables ==
  \A k \in 1..Len(tables) :
    /\ tables[k].ok
    /\ \A j \in 1..Len(tables[k].rows) :
         {tables[k].rows[j].open, tables[k].rows[j].close,
          tables[k].rows[j].ml, tables[k].rows[j].h2} \subseteq blacklist \cup NumericCells

\* the fields of a record that hold a cell as it was read, not a number
CellsOf(sp, r) ==
  CASE sp = "ncaa" -> {r.home_open, r.away_open, r.home_close, r.away_close,
                       r.home_ml, r.away_ml, r.home_2H, r.away_2H}
    [] sp = "mlb"  -> {r.home_close_ml, r.away_close_ml,
                       r.home_close_spread, r.away_close_spread}
    [] sp = "nhl"  -> {r.home_close_spread, r.away_close_spread}
    [] OTHER       -> {}

\* C14: for every sport, a blacklisted token in an odds, spread, total or
\* moneyline column never makes the run fail and is never passed through
\* into an emitted record.
C14_BlacklistedNeverEmitted ==
  (pc # "idle" /\ Finished /\ CleanTables /\ df # <<>>) =>
    /\ pc = "done"
    /\ \A p \in 1..Len(out) : CellsOf(sport, out[p]) \cap blacklist = {}

\* C16: the scraper keeps no state between invocations: when a driver call
\* has returned, every field list of self.schema is still empty.
C16_SchemaStaysEmpty ==
  (pc = "done" \/ pc2 = "done") => schema = <<>>

\* the orderings of n seasons, and a list put into the order f
Orderings(n) == {f \in [1..n -> 1..n] : \A i, k \in 1..n : i # k => f[i] # f[k]}

Reordered(list, f) == [k \in 1..Len(list) |-> list[f[k]]]

\* a record without the frame positions it was built from
Fields(r) == [f \in DOMAIN r \ {"rows"} |-> r[f]]

Count(recs, x) == Cardinality({p \in 1..Len(recs) : Fields(recs[p]) = x})

SameRecords(a, b) ==
  /\ Len(a) = Len(b)
  /\ \A p \in 1..Len(a) : Count(a, Fields(a[p])) = Count(b, Fields(a[p]))

\* C17: a run over the same seasons, each with the same table, taken in
\* any other order emits the same multiset of records.
C17_SeasonOrderIrrelevant ==
  (pc = "done" /\ Len(seasons) >= 2) =>
    \A f \in Orderings(Len(seasons)) :
      LET other == driver(sport, Reordered(seasons, f), Reordered(tables, f))
      IN ~other.raised /\ SameRecords(out, other.out)

\* C18: a table lacking a column the schema expects makes the run fail
\* towards the caller: a run of NCAABasketball2ndHalf.driver over a date
\* whose table has game rows but not every expected column does not return
\* normally, and no record is emitted for such a row.
C18_MissingColumnPropagates ==
  (pc2 = "done") =>
    /\ \A j \in 1..Len(dates) :
         (dates[j].ok /\ dates[j].rows # <<>>) => dates[j].ncols >= ExpectedCols
    /\ \A p \in 1..Len(final_df) : dates[final_df[p].date].ncols >= ExpectedCols

\* "<name> <score>": one or more name tokens, none of them a separator,
\* followed by an integer token
NameAndScore(half) ==
  /\ Len(half) >= 2
  /\ IsInt(half[Len(half)])
  /\ \A i \in 1..(Len(half) - 1) : half[i] \notin {"-", "@"}

\* C19: on a text "<name1> <score1><sep><name2> <score2>" with sep " - " or
\* " @ ", _parse_teams_and_scores returns (name1, score1, name2, score2).
C19_WellFormedText ==
  (fn = "_parse_teams_and_scores" /\ ret # <<>> /\ arg.is_str) =>
    \A k \in 1..Len(arg.text) :
      LET half1 == SubSeq(arg.text, 1, k - 1)
          half2 == SubSeq(arg.text, k + 1, Len(arg.text))
      IN (arg.text[k] \in {"-", "@"} /\ NameAndScore(half1) /\ NameAndScore(half2)) =>
           /\ ~ret[1].raised
           /\ ret[1].value = <<SubSeq(half1, 1, Len(half1) - 1), int(half1[Len(half1)]),
                               SubSeq(half2, 1, Len(half2) - 1), int(half2[Len(half2)])>>

\* "Duke 75 - North Carolina 70" has been parsed
C19_Witness ==
  /\ fn = "_parse_teams_and_scores"
  /\ arg.is_str
  /\ arg.text = DukeCarolina
  /\ ret = <<[raised |-> FALSE,
              value |-> <<<<"Duke">>, 75, <<"North", "Carolina">>, 70>>]>>

\* C20: _parse_teams_and_scores never raises, for a text, an empty text or
\* a cell that is not a str: it returns a 4-tuple (name, integer, name,
\* integer), and the placeholders ("Team1", 0, "Team2", 0) whenever the cell
\* does not give two parts.
C20_NeverRaises ==
  (fn = "_parse_teams_and_scores" /\ ret # <<>>) =>
    /\ ~ret[1].raised
    /\ Len(ret[1].value) = 4
    /\ ret[1].value[2] \in Int
    /\ ret[1].value[4] \in Int
    /\ (~arg.is_str \/ Len(parts_of(arg.text)) # 2) => ret[1].value = Placeholders

\* the placeholders have been returned for a cell that is not a str, for
\* the empty text, or for a text with two separators
C20_Witness ==
  /\ fn = "_parse_teams_and_scores"
  /\ ret # <<>>
  /\ ret[1].value = Placeholders
  /\ \/ ~arg.is_str
     \/ arg.is_str /\ arg.text = <<>>
     \/ arg.is_str /\ arg.text = <<"Duke", "-", "UNC", "-", "Duke">>

\* a price in American odds, as it is written in a cell
AmericanOdds == {"-110", "150", "-170"}

\* C21: _parse_opener on "<O|U> <line> <price>" returns that direction,
\* that line and that price; _parse_sportsbook_odds on a lone "<price>"
\* returns no line and that price; both return the empty token on "".
C21_DocumentedShapes ==
  (fn \in {"_parse_opener", "_parse_sportsbook_odds"} /\ ret # <<>> /\ arg.is_str) =>
    LET t == arg.text IN
    /\ (/\ fn = "_parse_opener" /\ Len(t) = 3
        /\ t[1] \in {"O", "U"} /\ t[2] = "75.5" /\ t[3] \in AmericanOdds)
         => ret[1] = <<t[1], 151, t[3]>>
    /\ (fn = "_parse_sportsbook_odds" /\ Len(t) = 1 /\ t[1] \in AmericanOdds)
         => ret[1] = <<0, t[1]>>
    /\ (fn = "_parse_opener" /\ t = <<>>) => ret[1] = <<"", 0, "">>
    /\ (fn = "_parse_sportsbook_odds" /\ t = <<>>) => ret[1] = <<0, "">>

\* "O 75.5 -110" has been parsed by _parse_opener
C21_Witness ==
  /\ fn = "_parse_opener"
  /\ arg.is_str
  /\ arg.text = <<"O", "75.5", "-110">>
  /\ ret = <<<<"O", 151, "-110">>>>

\* C22: a cell matching none of the recognized shapes yields the empty
\* token: every token _parse_opener returns has a direction in {O, U, ""},
\* and every price either parser returns is an American-odds integer or "".
C22_OnlyRecognizedShapes ==
  (fn \in {"_parse_opener", "_parse_sportsbook_odds"} /\ ret # <<>>) =>
    /\ fn = "_parse_opener" =>
         /\ ret[1][1] \in {"O", "U", ""}
         /\ ret[1][3] \in AmericanOdds \cup {""}
    /\ fn = "_parse_sportsbook_odds" => ret[1][2] \in AmericanOdds \cup {""}

\* the sport key each scraper is documented to translate under
OwnKey ==
  [cls \in ScraperClasses |->
     CASE cls = "NFLOddsScraper"            -> "nfl"
       [] cls = "NBAOddsScraper"            -> "nba"
       [] cls = "NCAABasketballOddsScraper" -> "ncaa"
       [] cls = "NHLOddsScraper"            -> "nhl"
       [] cls = "MLBOddsScraper"            -> "mlb"
       [] cls = "NCAABasketball2ndHalf"     -> "ncaa2ndhalf"]

\* C23: _translate(name) returns the entry stored under the scraper's own
\* sport key and then under the raw name when that entry exists, and the raw
\* name unchanged when the name, the sport or the whole table is missing.
C23_TranslateOrRawName ==
  (fn = "_translate" /\ ret # <<>>) =>
    LET key == OwnKey[arg.cls]
        hit == key \in DOMAIN arg.translator /\ arg.name \in DOMAIN arg.translator[key]
    IN ret[1] = (IF hit THEN arg.translator[key][arg.name] ELSE arg.name)

\* an NBA scraper has returned the "nba" entry of a table that also holds
\* an "nfl" entry for the name
C23_Witness ==
  /\ fn = "_translate"
  /\ ret # <<>>
  /\ arg.cls = "NBAOddsScraper"
  /\ {"nfl", "nba"} \subseteq DOMAIN arg.translator
  /\ arg.name = "KansasCity"
  /\ ret[1] = "Kansas City Kings"

\* C24: for every paired NFL/NBA game the closing spread magnitude is the
\* smaller-magnitude one of the two rows' closing values and close_over_under
\* the larger, and likewise for the second-half values, whatever the order
\* of the two opening values.
C24_EachLineResolvedIndependently ==
  (sport \in {"nfl", "nba"} /\ pc = "done") =>
    \A p \in 1..Len(out) :
      LET closing == <<float(AwayOf(p).close), float(HomeOf(p).close)>>
          second == <<float(AwayOf(p).h2), float(HomeOf(p).h2)>>
      IN /\ \E c \in {closing, <<closing[2], closing[1]>>} :
               /\ Abs(c[1]) <= Abs(c[2])
               /\ out[p].close_over_under = c[2]
               /\ Abs(out[p].home_close_spread) = Abs(c[1])
         /\ \E c \in {second, <<second[2], second[1]>>} :
               /\ Abs(c[1]) <= Abs(c[2])
               /\ out[p].h2_total = c[2]
               /\ Abs(out[p].home_2H_spread) = Abs(c[1])

\* C25: a paired NFL/NBA game whose two opening values are equal is flagged
\* as ambiguous: its record carries a flag, or the run reports the game, and
\* neither row's values are silently taken as spread and total.
C25_EqualOpeningsFlagged ==
  (sport \in {"nfl", "nba"} /\ pc = "done") =>
    \A p \in 1..Len(out) :
      float(AwayOf(p).open) = float(HomeOf(p).open) =>
        "ambiguous" \in DOMAIN out[p]

\* the separator a text is split at: " - " when it occurs, else " @ "
SepOf(text) ==
  IF \E i \in 2..(Len(text) - 1) : text[i] = "-" THEN "-"
  ELSE IF \E i \in 2..(Len(text) - 1) : text[i] = "@" THEN "@"
  ELSE ""

\* the occurrences of the separator, scanned from the left without overlap:
\* of a run of adjacent separator tokens the first, third, ... are taken
Taken(text) ==
  {i \in 2..(Len(text) - 1) :
     /\ text[i] = SepOf(text)
     /\ \E j \in 2..i :
          /\ \A k \in j..i : text[k] = SepOf(text)
          /\ (j = 2 \/ text[j - 1] # SepOf(text))
          /\ (i - j) % 2 = 0}

\* the text cut in two at position k, each side parsed
ParsedAt(text, k) ==
  parse_part(SubSeq(text, 1, k - 1)) \o parse_part(SubSeq(text, k + 1, Len(text)))

\* C26 as stated: a text containing the separator is split in two at the
\* first occurrence and parsed, however many occurrences it has.
C26_SplitAtFirstOccurrence ==
  (fn = "_parse_teams_and_scores" /\ ret # <<>> /\ arg.is_str
     /\ SepOf(arg.text) # "") =>
    LET first == Min({i \in 2..(Len(arg.text) - 1) : arg.text[i] = SepOf(arg.text)})
    IN ret[1].value = ParsedAt(arg.text, first)

\* C26 amended: a text containing the separator is split at every occurrence;
\* with one occurrence its two sides are parsed, with two or more the
\* placeholders are returned.
C26_SplitAtEveryOccurrence ==
  (fn = "_parse_teams_and_scores" /\ ret # <<>> /\ arg.is_str
     /\ SepOf(arg.text) # "") =>
    /\ Cardinality(Taken(arg.text)) = 1 =>
         ret[1].value = ParsedAt(arg.text, CHOOSE k \in Taken(arg.text) : TRUE)
    /\ Cardinality(Taken(arg.text)) >= 2 => ret[1].value = Placeholders

\* "Duke 75 - UNC - Duke" has given the placeholders
C26_Witness ==
  /\ fn = "_parse_teams_and_scores"
  /\ arg.is_str
  /\ arg.text = <<"Duke", "75", "-", "UNC", "-", "Duke">>
  /\ ret # <<>>
  /\ ret[1].value = Placeholders

\* the two parts of a text that is parsed
Halves(text) == parts_of(text)

\* C27 as stated: of each half, a trailing token that is an integer is the
\* score and the tokens before it the name, also when it is the only token;
\* otherwise the score is 0 and the half is the name.
C27_TrailingIntegerIsScore ==
  (fn = "_parse_teams_and_scores" /\ ret # <<>> /\ arg.is_str
     /\ Len(Halves(arg.text)) = 2) =>
    \A h \in 1..2 :
      LET half == Halves(arg.text)[h]
          name == ret[1].value[2 * h - 1]
          score == ret[1].value[2 * h]
      IN IF Len(half) >= 1 /\ IsInt(half[Len(half)])
           THEN name = SubSeq(half, 1, Len(half) - 1) /\ score = int(half[Len(half)])
           ELSE name = half /\ score = 0

\* C27 amended: of each half of two tokens or more, a trailing token that is
\* an integer is the score and the tokens before it the name; otherwise, so
\* for a half of one token too, the score is 0 and the half is the name.
C27_ScoreNeedsAName ==
  (fn = "_parse_teams_and_scores" /\ ret # <<>> /\ arg.is_str
     /\ Len(Halves(arg.text)) = 2) =>
    \A h \in 1..2 :
      LET half == Halves(arg.text)[h]
          name == ret[1].value[2 * h - 1]
          score == ret[1].value[2 * h]
      IN IF Len(half) >= 2 /\ IsInt(half[Len(half)])
           THEN name = SubSeq(half, 1, Len(half) - 1) /\ score = int(half[Len(half)])
           ELSE name = half /\ score = 0

\* "75 - UNC 75" has been parsed: the first half keeps "75" as its name
C27_Witness ==
  /\ fn = "_parse_teams_and_scores"
  /\ arg.is_str
  /\ arg.text = <<"75", "-", "UNC", "75">>
  /\ ret # <<>>
  /\ ret[1].value = <<<<"75">>, 0, <<"UNC">>, 75>>

\* the positions k of a token list whose token k and token k + 2 are both
\* integers, the first token excepted (position 0 is never tried)
SplitPoints(text) ==
  {k \in 2..(Len(text) - 2) : IsInt(text[k]) /\ IsInt(text[k + 2])}

\* a token list cut in two after position k, each side parsed
ParsedAfter(text, k) ==
  parse_part(SubSeq(text, 1, k)) \o parse_part(SubSeq(text, k + 1, Len(text)))

\* C28 as stated: a text without separator is split after its first split
\* point, and at its midpoint when it has none, whatever its length.
C28_MidpointForEveryList ==
  (fn = "_parse_teams_and_scores" /\ ret # <<>> /\ arg.is_str
     /\ SepOf(arg.text) = "") =>
    ret[1].value = (IF SplitPoints(arg.text) # {}
                      THEN ParsedAfter(arg.text, Min(SplitPoints(arg.text)))
                      ELSE ParsedAfter(arg.text, Len(arg.text) \div 2))

\* C28 amended: a text without separator of four tokens or more is split
\* after its first split point, and at its midpoint when it has none (also
\* when tokens 0 and 2 are integers); a text of fewer than four tokens gives
\* the placeholders.
C28_MidpointFromFourTokens ==
  (fn = "_parse_teams_and_scores" /\ ret # <<>> /\ arg.is_str
     /\ SepOf(arg.text) = "") =>
    ret[1].value = (IF Len(arg.text) < 4 THEN Placeholders
                    ELSE IF SplitPoints(arg.text) # {}
                      THEN ParsedAfter(arg.text, Min(SplitPoints(arg.text)))
                      ELSE ParsedAfter(arg.text, Len(arg.text) \div 2))

\* "Duke 75 UNC" has given the placeholders
C28_Witness ==
  /\ fn = "_parse_teams_and_scores"
  /\ arg.is_str
  /\ arg.text = <<"Duke", "75", "UNC">>
  /\ ret # <<>>
  /\ ret[1].value = Placeholders

\* C29: when no requested season has a table, or the only season that has
\* one has a table without data rows, the NFL/NBA/NCAA driver completes and
\* returns an empty result without raising.
C29_NothingToProcessCompletes ==
  (/\ sport \in {"nfl", "nba", "ncaa"}
   /\ Finished
   /\ \/ \A k \in 1..Len(tables) : ~tables[k].ok
      \/ /\ Cardinality({k \in 1..Len(tables) : tables[k].ok}) = 1
         /\ \A k \in 1..Len(tables) : tables[k].ok => tables[k].rows = <<>>)
  => (pc = "done" /\ out = <<>>)

\* main has ended, by returning or through sys.exit(1)
MainEnded == mpc \in {"returned", "exited"}

\* C30: a run of cli.main with --sport ncaa2ndhalf in which the page
\* extraction and the saving succeed ends by returning from main, with no
\* error message and no exit status 1; and main never reaches
\* scraper.driver() without a scraper bound.
C30_SecondHalfRunEndsCleanly ==
  /\ (/\ MainEnded
      /\ args.sport = "ncaa2ndhalf"
      /\ env.page_ok /\ env.save_ok
      /\ env.driver \in {"data", "empty"})
     => (mpc = "returned" /\ error = "none")
  /\ mpc = "collect" => scraper # "unbound"

====
